---- MODULE Spec2Model ----
(***************************************************************************)
(* The stumbler component of Otterverse/stumbler (main.go): a controller   *)
(* (struct stumbler: mu, imu, cancelFunc, wg) whose Reconfigure starts a   *)
(* background sampling goroutine and whose Close cancels and joins.        *)
(*                                                                         *)
(* Controller calls are made by concurrent caller threads.  A call is cut  *)
(* into steps at the points where it can block: acquiring s.mu and         *)
(* s.wg.Wait().  A critical section that cannot block is one step.         *)
(* A worker is cut into steps at its context check and its sensor reads.   *)
(***************************************************************************)
EXTENDS Integers, Sequences, FiniteSets, TLC

(***************************************************************************)
(* Bounds                                                                  *)
(***************************************************************************)
\* Iteration cap of the sampling loop.  main.go:164 uses 10000; the model
\* explores the same loop with a small cap.
WorkerBudget == 3
\* Window of each moving average.  main.go:155-161 use 50.
WindowCapacity == 2
\* Longest sequence of vectors fed to the windows in AvgSpec.
MaxFed == 5
\* The threads of the host that call into the controller concurrently.
Callers == {"c1", "c2"}
\* s.mu when no caller holds it.
Free == "free"
\* The goroutines startBackground launches in one behaviour, in launch order.
WorkerIds == {1, 2}

\* Sensor handles the host can supply, by dependency name.
Handles == {"imuA", "imuB"}
\* s.imu / s.cancelFunc before the first successful Reconfigure.
Nil == "nil"

\* resource.Config values: Native says whether NativeConfig[*Config] converts
\* it; IMU is Config.IMU ("" when the field is absent).
Configs ==
  [native : BOOLEAN, imu : Handles \cup {""}]

\* resource.Dependencies: the set of sensor names available.
DepSets == SUBSET Handles

\* Vectors a successful LinearAcceleration / AngularVelocity read returns.
SampleVectors == {<<1, 2, 3>>}
\* The zero r3.Vector / AngularVelocity.
ZeroVector == <<0, 0, 0>>
\* Outcomes of one LinearAcceleration / AngularVelocity read: the vector
\* returned and whether err is nil.  The value a driver returns next to a
\* non-nil error is its own choice: the zero vector or a cached reading.
ReadOutcomes ==
  [ok : {TRUE}, vec : SampleVectors] \cup
  [ok : {FALSE}, vec : {ZeroVector} \cup SampleVectors]
\* Outcomes of the Orientation read: success, an error with a nil pose, an
\* error with a usable pose.
OrientationOutcomes == {"ok", "errNilPose", "errPose"}

\* Vectors fed to the windows in AvgSpec: positive, zero and negative
\* components, different on the three axes.
FeedVectors == {<<1, 0, -2>>, <<3, 1, 1>>, <<0, 3, 3>>}

\* DoCommand requests: a map with or without the key "command".
NoKey == "<absent>"
Requests == {NoKey, "get", "bogus", ""}

(***************************************************************************)
(* movingaverage: a fixed-window streaming mean                            *)
(***************************************************************************)
New(cap) == [cap |-> cap, buf |-> <<>>, sum |-> 0]

Add(ma, v) ==
  IF Len(ma.buf) >= ma.cap
    THEN [ma EXCEPT !.buf = Append(Tail(ma.buf), v),
                    !.sum = ma.sum - Head(ma.buf) + v]
    ELSE [ma EXCEPT !.buf = Append(ma.buf, v),
                    !.sum = ma.sum + v]

\* The average as the exact fraction <<numerator, denominator>>;
\* <<0, 1>> is the value 0 returned for an empty window.
Avg(ma) ==
  IF Len(ma.buf) = 0 THEN <<0, 1>> ELSE <<ma.sum, Len(ma.buf)>>

\* Mutant of NewTriple: the windows are created one slot too wide.
NewTripleWider ==
  <<New(WindowCapacity + 1), New(WindowCapacity + 1), New(WindowCapacity + 1)>>

\* Three windows (X, Y, Z) fed with the components of one vector.
NewTriple == <<New(WindowCapacity), New(WindowCapacity), New(WindowCapacity)>>
AddVector(tr, vec) == [i \in 1..3 |-> Add(tr[i], vec[i])]
AvgTriple(tr) == [i \in 1..3 |-> Avg(tr[i])]

(***************************************************************************)
(* State                                                                   *)
(***************************************************************************)
VARIABLES
  imu,         \* s.imu: Nil or a handle
  cancelFunc,  \* s.cancelFunc: 0 (nil) or the worker whose context it cancels
  wg,          \* s.wg counter
  mu,          \* s.mu: Free or the caller holding it
  callers,     \* per caller thread: position in its call and locals
  workers,     \* per goroutine launched by startBackground
  started,     \* number of goroutines launched so far
  crashed,     \* the process died from an unrecovered panic
  ret,         \* the most recent return of a call: operation and result
  closed,      \* history: Closes returned since a Reconfigure last ran, up to 2
  win          \* AvgSpec: three windows and the vectors fed to them so far

vars ==
  <<imu, cancelFunc, wg, mu, callers, workers, started, crashed, ret, closed,
    win>>

IdleCaller == [pc |-> "idle", imu |-> Nil, target |-> 0]

NoReturn == [op |-> "none", arg |-> "none", res |-> "none", target |-> 0]

NoWorker ==
  [pc |-> "none", imu |-> Nil, cancelled |-> FALSE, iterations |-> 0,
   acc |-> NewTriple, gyr |-> NewTriple, errs |-> 0,
   lateAccel |-> 0, lateGyro |-> 0,
   summary |-> <<>>, orient |-> "none", dones |-> 0]

Init ==
  /\ imu = Nil
  /\ cancelFunc = 0
  /\ wg = 0
  /\ mu = Free
  /\ callers = [c \in Callers |-> IdleCaller]
  /\ workers = [w \in WorkerIds |-> NoWorker]
  /\ started = 0
  /\ crashed = FALSE
  /\ ret = NoReturn
  /\ closed = 0
  /\ win = [tr |-> NewTriple, fed |-> <<>>]

\* A caller thread can begin a new call.
Ready(c) == ~crashed /\ callers[c].pc = "idle"

\* The call op(arg) of caller c returns res; target is the worker it acted on.
Return(c, op, arg, res, target) ==
  /\ callers' = [callers EXCEPT ![c] = IdleCaller]
  /\ ret' = [op |-> op, arg |-> arg, res |-> res, target |-> target]

(***************************************************************************)
(* Config.Validate, main.go:74-79                                          *)
(***************************************************************************)
Validate(cfg) ==
  IF cfg.imu = ""
    THEN [deps |-> {}, err |-> "field required: imu"]
    ELSE [deps |-> {cfg.imu}, err |-> "nil"]

\* The host validates a converted config; the controller is not involved.
ValidateCall(c, cfg) ==
  /\ Ready(c)
  /\ cfg.native
  /\ Return(c, "Validate", cfg.imu, Validate(cfg).err, 0)
  /\ UNCHANGED <<imu, cancelFunc, wg, mu, workers, started, crashed, closed>>
  /\ UNCHANGED win

(***************************************************************************)
(* stumbler.Reconfigure, main.go:101-115 (also newStumbler, main.go:81-88) *)
(***************************************************************************)
\* Callers between the dependency lookup and the launch of their goroutine.
InFlight ==
  {c \in Callers : callers[c].pc \in {"lockSwap", "startBackground"}}

\* Mutant of ReconfigureCall: the result of the lookup is stored in s.imu
\* before its error is checked.
ReconfigureCallStoresFirst(c, conf, deps) ==
  /\ Ready(c)
  /\ IF ~conf.native
       THEN /\ Return(c, "Reconfigure", "none", "errNativeConfig", 0)
            /\ UNCHANGED <<imu, closed>>
       ELSE IF conf.imu \notin deps
         THEN /\ Return(c, "Reconfigure", "none", "errMissingDependency", 0)
              /\ imu' = Nil
              /\ UNCHANGED closed
         ELSE /\ started + Cardinality(InFlight) < Cardinality(WorkerIds)
              /\ callers' = [callers EXCEPT ![c] =
                    [IdleCaller EXCEPT !.pc = "lockSwap", !.imu = conf.imu]]
              /\ closed' = 0
              /\ UNCHANGED <<imu, ret>>
  /\ UNCHANGED <<cancelFunc, wg, mu, workers, started, crashed>>
  /\ UNCHANGED win

\* Lines 102-110: convert the config and look the sensor up; local to the call.
ReconfigureCall(c, conf, deps) ==
  /\ Ready(c)
  /\ IF ~conf.native
       THEN /\ Return(c, "Reconfigure", "none", "errNativeConfig", 0)
            /\ UNCHANGED closed
       ELSE IF conf.imu \notin deps
         THEN /\ Return(c, "Reconfigure", "none", "errMissingDependency", 0)
              /\ UNCHANGED closed
         ELSE /\ started + Cardinality(InFlight) < Cardinality(WorkerIds)
              /\ callers' = [callers EXCEPT ![c] =
                    [IdleCaller EXCEPT !.pc = "lockSwap", !.imu = conf.imu]]
              /\ closed' = 0
              /\ UNCHANGED ret
  /\ UNCHANGED <<imu, cancelFunc, wg, mu, workers, started, crashed>>
  /\ UNCHANGED win

\* Mutant of ReconfigureSwap: wg.Add(1) is done here, before startBackground.
ReconfigureSwapAddsEarly(c) ==
  /\ ~crashed
  /\ callers[c].pc = "lockSwap"
  /\ mu = Free
  /\ imu' = callers[c].imu
  /\ wg' = wg + 1
  /\ callers' = [callers EXCEPT ![c].pc = "startBackground"]
  /\ UNCHANGED <<cancelFunc, mu, workers, started, crashed, ret, closed>>
  /\ UNCHANGED win

\* Mutant of ReconfigureSwap: the goroutines read s.imu instead of their
\* argument, so the swap rebinds every running worker.
ReconfigureSwapRebinds(c) ==
  /\ ~crashed
  /\ callers[c].pc = "lockSwap"
  /\ mu = Free
  /\ imu' = callers[c].imu
  /\ workers' = [w \in WorkerIds |->
                   IF workers[w].pc \in {"top", "accel", "gyro", "orient"}
                     THEN [workers[w] EXCEPT !.imu = callers[c].imu]
                     ELSE workers[w]]
  /\ callers' = [callers EXCEPT ![c].pc = "startBackground"]
  /\ UNCHANGED <<cancelFunc, wg, mu, started, crashed, ret, closed>>
  /\ UNCHANGED win

\* Lines 111-113: s.mu.Lock(); s.imu = imu; s.mu.Unlock().
ReconfigureSwap(c) ==
  /\ ~crashed
  /\ callers[c].pc = "lockSwap"
  /\ mu = Free
  /\ imu' = callers[c].imu
  /\ callers' = [callers EXCEPT ![c].pc = "startBackground"]
  /\ UNCHANGED <<cancelFunc, wg, mu, workers, started, crashed, ret, closed>>
  /\ UNCHANGED win

\* Mutant of StartBackground: the goroutine is launched without s.wg.Add(1).
StartBackgroundNoAdd(c) ==
  /\ ~crashed
  /\ callers[c].pc = "startBackground"
  /\ mu = Free
  /\ started + 1 \in WorkerIds
  /\ cancelFunc' = started + 1
  /\ started' = started + 1
  /\ workers' = [workers EXCEPT ![started + 1] =
                   [NoWorker EXCEPT !.pc = "top", !.imu = imu]]
  /\ Return(c, "Reconfigure", callers[c].imu, "nil", started + 1)
  /\ UNCHANGED <<imu, wg, mu, crashed, closed>>
  /\ UNCHANGED win

\* Lines 144-150 and 203-204: under s.mu, wg.Add(1), replace cancelFunc and
\* launch the goroutine with the current s.imu; then Reconfigure returns nil.
StartBackground(c) ==
  /\ ~crashed
  /\ callers[c].pc = "startBackground"
  /\ mu = Free
  /\ started + 1 \in WorkerIds
  /\ wg' = wg + 1
  /\ cancelFunc' = started + 1
  /\ started' = started + 1
  /\ workers' = [workers EXCEPT ![started + 1] =
                   [NoWorker EXCEPT !.pc = "top", !.imu = imu]]
  /\ Return(c, "Reconfigure", callers[c].imu, "nil", started + 1)
  /\ UNCHANGED <<imu, mu, crashed, closed>>
  /\ UNCHANGED win

(***************************************************************************)
(* stumbler.DoCommand, main.go:117-131                                     *)
(***************************************************************************)
\* Mutant of DoCommandResult: an empty command counts as a missing one.
DoCommandResultEmptyIsMissing(req) ==
  IF req = NoKey \/ req = "" THEN <<"error", "missing 'command' string">>
  ELSE IF req = "get" THEN <<"ok", "{}">>
  ELSE <<"error", "unknown command string ", req>>

DoCommandResult(req) ==
  IF req = NoKey THEN <<"error", "missing 'command' string">>
  ELSE IF req = "get" THEN <<"ok", "{}">>
  ELSE <<"error", "unknown command string ", req>>

DoCommand(c, req) ==
  /\ Ready(c)
  /\ Return(c, "DoCommand", req, DoCommandResult(req), 0)
  /\ UNCHANGED <<imu, cancelFunc, wg, mu, workers, started, crashed, closed>>
  /\ UNCHANGED win

(***************************************************************************)
(* stumbler.Close, main.go:133-142                                         *)
(***************************************************************************)
\* Line 134: the call is entered and logs; next it needs s.mu.
CloseCall(c) ==
  /\ Ready(c)
  /\ callers' = [callers EXCEPT ![c].pc = "closeLock"]
  /\ UNCHANGED <<imu, cancelFunc, wg, mu, workers, started, crashed, ret,
                 closed>>
  /\ UNCHANGED win

\* context.CancelFunc: marks the worker's context as cancelled.
Cancel(ws, w) == [ws EXCEPT ![w].cancelled = TRUE]

\* Lines 135-139: take s.mu (kept until return) and cancel the current context.
CloseLock(c) ==
  /\ ~crashed
  /\ callers[c].pc = "closeLock"
  /\ mu = Free
  /\ mu' = c
  /\ workers' = IF cancelFunc # 0 THEN Cancel(workers, cancelFunc) ELSE workers
  /\ callers' = [callers EXCEPT ![c].pc = "closeWait", ![c].target = cancelFunc]
  /\ UNCHANGED <<imu, cancelFunc, wg, started, crashed, ret, closed>>
  /\ UNCHANGED win

\* Mutant of CloseWait: Close returns without s.wg.Wait().
CloseWaitNoJoin(c) ==
  /\ ~crashed
  /\ callers[c].pc = "closeWait"
  /\ mu' = Free
  /\ Return(c, "Close", "none", "nil", callers[c].target)
  /\ closed' = IF InFlight # {} THEN 0 ELSE IF closed = 0 THEN 1 ELSE 2
  /\ UNCHANGED <<imu, cancelFunc, wg, workers, started, crashed>>
  /\ UNCHANGED win

\* Mutant of CloseWait: Close calls s.wg.Done() itself after the wait.
CloseWaitExtraDone(c) ==
  /\ ~crashed
  /\ callers[c].pc = "closeWait"
  /\ wg = 0
  /\ wg' = wg - 1
  /\ mu' = Free
  /\ Return(c, "Close", "none", "nil", callers[c].target)
  /\ closed' = IF InFlight # {} THEN 0 ELSE IF closed = 0 THEN 1 ELSE 2
  /\ UNCHANGED <<imu, cancelFunc, workers, started, crashed>>
  /\ UNCHANGED win

\* Lines 140-141: s.wg.Wait() returns when the counter is zero; the deferred
\* Unlock runs and Close returns nil.
CloseWait(c) ==
  /\ ~crashed
  /\ callers[c].pc = "closeWait"
  /\ wg = 0
  /\ mu' = Free
  /\ Return(c, "Close", "none", "nil", callers[c].target)
  /\ closed' = IF InFlight # {} THEN 0 ELSE IF closed = 0 THEN 1 ELSE 2
  /\ UNCHANGED <<imu, cancelFunc, wg, workers, started, crashed>>
  /\ UNCHANGED win

(***************************************************************************)
(* The goroutine of startBackground, main.go:150-203                       *)
(***************************************************************************)
\* Mutant of Summary: the averages are computed as sum / count by hand.
SummaryUnguarded(wk) ==
  [iterations |-> wk.iterations,
   acc |-> [i \in 1..3 |-> <<wk.acc[i].sum, Len(wk.acc[i].buf)>>],
   gyr |-> [i \in 1..3 |-> <<wk.gyr[i].sum, Len(wk.gyr[i].buf)>>]]

\* Lines 190-193: the "Run Finished" and "Averages" records.
Summary(wk) ==
  [iterations |-> wk.iterations,
   acc |-> AvgTriple(wk.acc), gyr |-> AvgTriple(wk.gyr)]

\* Mutant of WorkerCheck: the loop condition tests the budget only.
WorkerCheckBudgetOnly(w) ==
  /\ ~crashed
  /\ workers[w].pc = "top"
  /\ IF workers[w].iterations >= WorkerBudget
       THEN workers' = [workers EXCEPT ![w].pc = "orient",
                                       ![w].summary = <<Summary(workers[w])>>]
       ELSE workers' = [workers EXCEPT ![w].pc = "accel"]
  /\ UNCHANGED <<imu, cancelFunc, wg, mu, callers, started, crashed, ret,
                 closed>>
  /\ UNCHANGED win

\* Lines 164-166 and 190-193: the loop condition; on break the summary is
\* logged and the worker goes on to the orientation read.
WorkerCheck(w) ==
  /\ ~crashed
  /\ workers[w].pc = "top"
  /\ IF workers[w].cancelled \/ workers[w].iterations >= WorkerBudget
       THEN workers' = [workers EXCEPT ![w].pc = "orient",
                                       ![w].summary = <<Summary(workers[w])>>]
       ELSE workers' = [workers EXCEPT ![w].pc = "accel"]
  /\ UNCHANGED <<imu, cancelFunc, wg, mu, callers, started, crashed, ret,
                 closed>>
  /\ UNCHANGED win

\* Mutant of WorkerAccel: a failed read breaks out of the loop.
WorkerAccelBreaksOnError(w, r) ==
  /\ ~crashed
  /\ workers[w].pc = "accel"
  /\ IF r.ok
       THEN workers' = [workers EXCEPT
              ![w].pc = "gyro",
              ![w].acc = AddVector(@, r.vec),
              ![w].lateAccel = @ + (IF workers[w].cancelled THEN 1 ELSE 0)]
       ELSE workers' = [workers EXCEPT
              ![w].pc = "orient",
              ![w].errs = @ + 1,
              ![w].lateAccel = @ + (IF workers[w].cancelled THEN 1 ELSE 0),
              ![w].summary = <<Summary(workers[w])>>]
  /\ UNCHANGED <<imu, cancelFunc, wg, mu, callers, started, crashed, ret,
                 closed>>
  /\ UNCHANGED win

\* Lines 171-177: LinearAcceleration returns; an error is logged; the
\* components of accel are added to X, Y, Z.
WorkerAccel(w, r) ==
  /\ ~crashed
  /\ workers[w].pc = "accel"
  /\ workers' = [workers EXCEPT
       ![w].pc = "gyro",
       ![w].errs = @ + (IF r.ok THEN 0 ELSE 1),
       ![w].acc = AddVector(@, r.vec),
       ![w].lateAccel = @ + (IF workers[w].cancelled THEN 1 ELSE 0)]
  /\ UNCHANGED <<imu, cancelFunc, wg, mu, callers, started, crashed, ret,
                 closed>>
  /\ UNCHANGED win

\* Lines 179-188: AngularVelocity returns; an error is logged; the components
\* of gyro are added to RX, RY, RZ; iterations++.
WorkerGyro(w, r) ==
  /\ ~crashed
  /\ workers[w].pc = "gyro"
  /\ workers' = [workers EXCEPT
       ![w].pc = "top",
       ![w].errs = @ + (IF r.ok THEN 0 ELSE 1),
       ![w].gyr = AddVector(@, r.vec),
       ![w].lateGyro = @ + (IF workers[w].cancelled THEN 1 ELSE 0),
       ![w].iterations = @ + 1]
  /\ UNCHANGED <<imu, cancelFunc, wg, mu, callers, started, crashed, ret,
                 closed>>
  /\ UNCHANGED win

\* Lines 196-203 with the deferred s.wg.Done() of line 151.  With a nil pose
\* pose.EulerAngles() panics: the deferred Done still runs and the goroutine
\* unwinds with the panic.
WorkerOrientation(w, o) ==
  /\ ~crashed
  /\ workers[w].pc = "orient"
  /\ workers' = [workers EXCEPT
       ![w].pc = IF o = "errNilPose" THEN "panicking" ELSE "done",
       ![w].errs = @ + (IF o = "ok" THEN 0 ELSE 1),
       ![w].orient = IF o = "errNilPose" THEN "none" ELSE "emitted",
       ![w].acc = NewTriple,
       ![w].gyr = NewTriple,
       ![w].dones = @ + 1]
  /\ wg' = wg - 1
  /\ UNCHANGED <<imu, cancelFunc, mu, callers, started, crashed, ret, closed>>
  /\ UNCHANGED win

\* An unrecovered panic in a goroutine ends the process.
ProcessCrash(w) ==
  /\ ~crashed
  /\ workers[w].pc = "panicking"
  /\ workers' = [workers EXCEPT ![w].pc = "panicked"]
  /\ crashed' = TRUE
  /\ UNCHANGED <<imu, cancelFunc, wg, mu, callers, started, ret, closed>>
  /\ UNCHANGED win

\* What the sensor behind a handle returns in Spec: imuA is a working
\* sensor, imuB one whose every read fails.
Reads(h) ==
  {r \in ReadOutcomes : r.ok = (h = "imuA") /\ (r.ok \/ r.vec = ZeroVector)}
Poses(h) == {o \in OrientationOutcomes : (o = "ok") = (h = "imuA")}

\* Concurrent callers, several goroutines, one fixed sensor per handle.
Next ==
  \/ \E c \in Callers, conf \in Configs, deps \in DepSets :
       ReconfigureCall(c, conf, deps)
  \/ \E c \in Callers : ReconfigureSwap(c)
  \/ \E c \in Callers : StartBackground(c)
  \/ \E c \in Callers : CloseCall(c)
  \/ \E c \in Callers : CloseLock(c)
  \/ \E c \in Callers : CloseWait(c)
  \/ \E w \in WorkerIds : WorkerCheck(w)
  \/ \E w \in WorkerIds : \E r \in Reads(workers[w].imu) : WorkerAccel(w, r)
  \/ \E w \in WorkerIds : \E r \in Reads(workers[w].imu) : WorkerGyro(w, r)
  \/ \E w \in WorkerIds : \E o \in Poses(workers[w].imu) : WorkerOrientation(w, o)
  \/ \E w \in WorkerIds : ProcessCrash(w)

Spec == Init /\ [][Next]_vars

\* Scheduling: every goroutine that can take a step eventually takes it and
\* every sensor read returns; a caller waiting for s.mu eventually gets it
\* (sync.RWMutex does not starve a waiting Lock), and Wait returns once the
\* counter is zero.
Fairness ==
  /\ \A w \in WorkerIds :
       /\ WF_vars(WorkerCheck(w))
       /\ WF_vars(\E r \in Reads(workers[w].imu) : WorkerAccel(w, r))
       /\ WF_vars(\E r \in Reads(workers[w].imu) : WorkerGyro(w, r))
       /\ WF_vars(\E o \in Poses(workers[w].imu) : WorkerOrientation(w, o))
       /\ WF_vars(ProcessCrash(w))
  /\ \A c \in Callers :
       /\ SF_vars(ReconfigureSwap(c))
       /\ SF_vars(StartBackground(c))
       /\ SF_vars(CloseLock(c))
       /\ WF_vars(CloseWait(c))

FairSpec == Spec /\ Fairness

\* One caller, one goroutine, every read free to succeed or fail.
WorkerNext ==
  \/ \E cfg \in Configs : ValidateCall("c1", cfg)
  \/ \E conf \in Configs, deps \in DepSets :
       /\ conf.native /\ conf.imu \in deps => started = 0
       /\ ReconfigureCall("c1", conf, deps)
  \/ ReconfigureSwap("c1")
  \/ StartBackground("c1")
  \/ \E req \in Requests : DoCommand("c1", req)
  \/ CloseCall("c1")
  \/ CloseLock("c1")
  \/ CloseWait("c1")
  \/ WorkerCheck(1)
  \/ \E r \in ReadOutcomes : WorkerAccel(1, r)
  \/ \E r \in ReadOutcomes : WorkerGyro(1, r)
  \/ \E o \in OrientationOutcomes : WorkerOrientation(1, o)
  \/ ProcessCrash(1)

WorkerSpec == Init /\ [][WorkerNext]_vars

(***************************************************************************)
(* The windows alone: main.go:155-157 and 175-177 applied to any sequence  *)
(* of vectors                                                              *)
(***************************************************************************)
Feed(vec) ==
  /\ Len(win.fed) < MaxFed
  /\ win' = [tr |-> AddVector(win.tr, vec), fed |-> Append(win.fed, vec)]
  /\ UNCHANGED <<imu, cancelFunc, wg, mu, callers, workers, started, crashed,
                 ret, closed>>

AvgNext == \E vec \in FeedVectors : Feed(vec)

AvgSpec == Init /\ [][AvgNext]_vars

(***************************************************************************)
(* Properties                                                              *)
(***************************************************************************)
\* The worker has been launched and has not yet signalled completion.
Running(w) == workers[w].pc \in {"top", "accel", "gyro", "orient"}
\* The worker has left its loop, logged its summary and run wg.Done().
Finished(w) ==
  /\ workers[w].pc \in {"done", "panicking", "panicked"}
  /\ workers[w].summary # <<>>
  /\ workers[w].dones = 1
\* The controller's fields and everything its goroutines hold.
ctrl == <<imu, cancelFunc, wg, workers, started>>
\* This step is the return of a call of operation op.
Returns(op) == ret' # ret /\ ret'.op = op

\* C1: for one controller, two worker runs never overlap: at most one
\* worker is running at any time.
NoOverlap ==
  \A w1, w2 \in WorkerIds : Running(w1) /\ Running(w2) => w1 = w2

\* C2: when Close has returned, the worker it cancelled has left its loop,
\* has emitted its summary and has signalled completion.
CloseJoins ==
  ret.op = "Close" /\ ret.target # 0 => Finished(ret.target)

\* A Close returned after cancelling a worker in the middle of its run.
CloseJoinsWitness ==
  /\ ret.op = "Close" /\ ret.target # 0
  /\ workers[ret.target].cancelled
  /\ workers[ret.target].iterations > 0
  /\ workers[ret.target].iterations < WorkerBudget
  /\ workers[ret.target].pc = "done"

\* C3: once a Close has returned (and no Reconfigure has run since), a
\* further Close does not block on the join, returns nil, and changes
\* neither the completion counter nor any other controller state.
CloseIdempotent ==
  /\ [](closed > 0 => wg = 0)
  /\ [][closed > 0 /\ (\E c \in Callers :
                     /\ callers[c].pc \in {"closeLock", "closeWait"}
                     /\ callers'[c] # callers[c])
          => /\ UNCHANGED ctrl
             /\ closed' > 0
             /\ Returns("Close") => ret'.res = "nil"]_vars

\* A second Close has returned after a first one that joined a worker.
CloseIdempotentWitness ==
  closed = 2 /\ ret.op = "Close" /\ ret.target # 0

\* C4: on a controller on which no Reconfigure has succeeded (no cancel
\* function, no worker started) Close does not block: the counter is zero,
\* the lock is free or held by a Close that can return, and Close returns nil.
CloseUnconfigured ==
  cancelFunc = 0 /\ started = 0 =>
    /\ wg = 0
    /\ mu # Free => callers[mu].pc = "closeWait"
    /\ ret.op = "Close" => ret.res = "nil" /\ ret.target = 0

\* Close has returned nil on a controller that was never configured.
CloseUnconfiguredWitness ==
  /\ imu = Nil /\ cancelFunc = 0 /\ started = 0
  /\ ret.op = "Close" /\ ret.res = "nil"

\* C5: a worker whose context is cancelled makes at most one more
\* acceleration read and one more angular-velocity read, and it has signalled
\* completion when the Close that cancelled it has returned.
CancelStopsWithinIteration ==
  /\ \A w \in WorkerIds :
       workers[w].lateAccel <= 1 /\ workers[w].lateGyro <= 1
  /\ ret.op = "Close" /\ ret.target # 0 => workers[ret.target].dones = 1

\* Close returned for a worker that was cancelled while in an acceleration
\* read, short of its budget: it finished that iteration and stopped.
CancelStopsWitness ==
  /\ ret.op = "Close" /\ ret.target # 0
  /\ workers[ret.target].cancelled
  /\ workers[ret.target].lateAccel = 1 /\ workers[ret.target].lateGyro = 1
  /\ workers[ret.target].iterations < WorkerBudget
  /\ workers[ret.target].dones = 1

\* C6: a worker that is not cancelled leaves its loop only after exactly
\* WorkerBudget iterations, whatever reads failed, and then signals completion.
LoopRunsFullBudget ==
  \A w \in WorkerIds :
    ~workers[w].cancelled /\ workers[w].summary # <<>> =>
      /\ workers[w].summary[1].iterations = WorkerBudget
      /\ workers[w].iterations = WorkerBudget
      /\ workers[w].pc # "orient" => workers[w].dones = 1

\* An uncancelled worker all of whose reads failed has completed.
LoopRunsFullBudgetWitness ==
  \E w \in WorkerIds :
    /\ ~workers[w].cancelled
    /\ workers[w].pc = "done"
    /\ workers[w].errs >= 2 * WorkerBudget
    /\ workers[w].summary[1].iterations = WorkerBudget
    /\ workers[w].dones = 1

\* C7: a failed acceleration read leaves the acceleration windows unchanged,
\* and a failed angular-velocity read leaves the gyro windows unchanged.
FailedReadSkipsUpdate ==
  [][\A w \in WorkerIds :
       workers'[w].errs = workers[w].errs + 1 =>
         /\ workers[w].pc = "accel" => workers'[w].acc = workers[w].acc
         /\ workers[w].pc = "gyro" => workers'[w].gyr = workers[w].gyr]_vars

\* C8: every worker that has exited has signalled completion exactly once,
\* and no worker is ever in a crashed state.
CompletionWithoutCrash ==
  \A w \in WorkerIds :
    /\ workers[w].pc \notin {"panicking", "panicked"}
    /\ workers[w].pc = "done" => workers[w].dones = 1
    /\ workers[w].dones <= 1

\* C9: a Reconfigure that returns an error leaves the sensor handle, the
\* cancel function, the completion counter and every worker as they were.
ReconfigureFailureKeepsState ==
  [][Returns("Reconfigure") /\ ret'.res # "nil" => UNCHANGED ctrl]_vars

\* A Reconfigure has failed while a worker was running.
ReconfigureFailureWitness ==
  /\ ret.op = "Reconfigure" /\ ret.res = "errMissingDependency"
  /\ imu # Nil /\ cancelFunc # 0 /\ wg > 0
  /\ \E w \in WorkerIds : Running(w)

\* C10: DoCommand has three outcomes fixed by the request: no command key is
\* a missing-field error, "get" succeeds with an empty map, any other value is
\* an unknown-command error naming it; controller and workers are unchanged.
DoCommandOutcomes ==
  /\ [](ret.op = "DoCommand" =>
          IF ret.arg = NoKey
            THEN ret.res = <<"error", "missing 'command' string">>
          ELSE IF ret.arg = "get"
            THEN ret.res = <<"ok", "{}">>
          ELSE /\ ret.res[1] = "error"
               /\ Len(ret.res) = 3
               /\ ret.res[2] = "unknown command string "
               /\ ret.res[3] = ret.arg)
  /\ [][Returns("DoCommand") => UNCHANGED <<ctrl, mu, crashed>>]_vars

\* An unknown command was refused while a worker was sampling.
DoCommandOutcomesWitness ==
  /\ ret.op = "DoCommand" /\ ret.arg = "bogus" /\ ret.res[1] = "error"
  /\ \E w \in WorkerIds : workers[w].pc \in {"accel", "gyro"}

RECURSIVE SumSeq(_)
SumSeq(q) == IF q = <<>> THEN 0 ELSE Head(q) + SumSeq(Tail(q))
\* The last k elements of q.
LastK(q, k) == SubSeq(q, Len(q) - k + 1, Len(q))
\* The values fed so far to window i of win.
FedTo(i) == [j \in 1..Len(win.fed) |-> win.fed[j][i]]
\* The fraction a equals the mean of the non-empty sequence q.
IsMeanOf(a, q) == a[2] > 0 /\ a[1] * Len(q) = SumSeq(q) * a[2]

\* C11: after N values, the average of a window is the mean of the last
\* min(N, WindowCapacity) values added, and the buffer never holds more than
\* WindowCapacity values.
SlidingMean ==
  \A i \in 1..3 :
    LET q == FedTo(i)
        k == IF Len(q) < WindowCapacity THEN Len(q) ELSE WindowCapacity
    IN /\ Len(win.tr[i].buf) <= WindowCapacity
       /\ Len(q) > 0 => IsMeanOf(Avg(win.tr[i]), LastK(q, k))

\* WindowCapacity ones followed by one 3 on the X axis: the average is
\* (WindowCapacity - 1 + 3) / WindowCapacity.
SlidingMeanWitness ==
  /\ Len(win.fed) = WindowCapacity + 1
  /\ \A j \in 1..WindowCapacity : win.fed[j][1] = 1
  /\ win.fed[WindowCapacity + 1][1] = 3
  /\ Avg(win.tr[1]) = <<WindowCapacity - 1 + 3, WindowCapacity>>

\* C12: the average of a window to which nothing was added is the value 0
\* and no average divides by zero: a worker that leaves the loop before its
\* first iteration logs six averages equal to 0.
EmptyAverageIsZero ==
  \A w \in WorkerIds :
    workers[w].summary # <<>> =>
      LET sm == workers[w].summary[1]
      IN /\ \A i \in 1..3 : sm.acc[i][2] > 0 /\ sm.gyr[i][2] > 0
         /\ sm.iterations = 0 =>
              \A i \in 1..3 : sm.acc[i] = <<0, 1>> /\ sm.gyr[i] = <<0, 1>>

\* A worker cancelled before its first iteration has logged its summary.
EmptyAverageWitness ==
  \E w \in WorkerIds :
    /\ workers[w].cancelled
    /\ workers[w].pc = "done"
    /\ workers[w].summary # <<>>
    /\ workers[w].summary[1].iterations = 0
    /\ workers[w].lateAccel = 0

\* C13: Reconfigure swaps the handle and launches the worker as one atomic
\* step: the worker started by Reconfigure(h) is bound to h, and between the
\* swap and the launch no other Reconfigure or Close takes effect.
SwapAndStartAtomic ==
  /\ ret.op = "Reconfigure" /\ ret.res = "nil" =>
       workers[ret.target].imu = ret.arg
  /\ \A c \in Callers :
       callers[c].pc = "startBackground" =>
         imu = callers[c].imu /\ mu = Free

\* C14: a launched worker keeps the sensor handle it was given: no later
\* step, in particular no Reconfigure that installs another handle in the
\* controller, changes the handle its reads use.
WorkerKeepsHandle ==
  [][\A w \in WorkerIds :
       workers[w].pc # "none" => workers'[w].imu = workers[w].imu]_vars

\* A worker is sampling on its own handle after the controller's handle was
\* replaced by another one.
WorkerKeepsHandleWitness ==
  \E w \in WorkerIds :
    /\ workers[w].pc \in {"accel", "gyro"}
    /\ workers[w].iterations > 0
    /\ workers[w].imu # Nil
    /\ imu # workers[w].imu
    /\ cancelFunc = w

\* C15: Close never fails and always eventually returns: every Close that
\* has been called returns, and it returns nil.
CloseReturns ==
  /\ [](ret.op = "Close" => ret.res = "nil")
  /\ \A c \in Callers :
       callers[c].pc \in {"closeLock", "closeWait"} ~> callers[c].pc = "idle"

\* C16: the iteration counter never exceeds WorkerBudget, the loop body is
\* not entered once it has reached WorkerBudget, and a worker that is not
\* cancelled eventually leaves the loop and logs its summary.
BudgetTerminates ==
  /\ [](\A w \in WorkerIds :
          /\ workers[w].iterations <= WorkerBudget
          /\ workers[w].pc \in {"accel", "gyro"} =>
               workers[w].iterations < WorkerBudget)
  /\ \A w \in WorkerIds :
       workers[w].pc # "none" ~>
         workers[w].summary # <<>> \/ workers[w].cancelled

\* C17: the orientation read after the loop decides what is logged: when it
\* succeeds the orientation record is emitted, when it fails the error is
\* logged and no orientation record is emitted.
OrientationOnlyOnSuccess ==
  [][\A w \in WorkerIds :
       workers[w].pc = "orient" /\ workers'[w].pc # "orient" =>
         IF workers'[w].errs = workers[w].errs
           THEN workers'[w].orient = "emitted"
           ELSE /\ workers'[w].errs = workers[w].errs + 1
                /\ workers'[w].orient = "none"]_vars

\* The worker is running and every read it has made so far has failed.
AllFailed(w) ==
  /\ workers[w].pc \in {"top", "accel", "gyro", "orient"}
  /\ workers[w].errs =
       2 * workers[w].iterations + (IF workers[w].pc = "gyro" THEN 1 ELSE 0)
\* The fraction a is the value 0.
IsZero(a) == a[1] = 0 /\ a[2] > 0

\* C18: in a run in which every acceleration and angular-velocity read has
\* failed, all six averages are 0 at every point and in the summary: a failed
\* read never moves an average away from its initial 0.
FailedReadsKeepZero ==
  \A w \in WorkerIds :
    AllFailed(w) =>
      /\ \A i \in 1..3 :
           IsZero(Avg(workers[w].acc[i])) /\ IsZero(Avg(workers[w].gyr[i]))
      /\ workers[w].pc = "orient" =>
           \A i \in 1..3 :
             /\ IsZero(workers[w].summary[1].acc[i])
             /\ IsZero(workers[w].summary[1].gyr[i])

\* The caller is blocked in s.mu.Lock(): Reconfigure at line 111 or 145,
\* Close at line 135, while another call holds the lock.
WaitsForLock(c) ==
  /\ callers[c].pc \in {"lockSwap", "startBackground", "closeLock"}
  /\ mu # Free
\* The worker is inside LinearAcceleration, AngularVelocity or Orientation.
InSensorRead(w) == workers[w].pc \in {"accel", "gyro", "orient"}

\* C19: s.mu is never held across a blocking sensor call: no Reconfigure or
\* Close is blocked on the lock while the lock holder waits for a worker that
\* is inside a sensor read.
LockNotHeldAcrossRead ==
  \A c \in Callers :
    WaitsForLock(c) /\ callers[mu].pc = "closeWait" =>
      \A w \in WorkerIds : ~InSensorRead(w)

\* The WaitGroup counter is the number of workers launched and not yet past
\* their deferred wg.Done().
WgCountsRunning ==
  /\ wg = Cardinality({w \in WorkerIds : Running(w)})
  /\ wg >= 0
\* A step in which the wg.Wait() of a Close returns is taken only when every
\* worker launched so far has run its wg.Done().
WaitReturnsAfterAll ==
  \A c \in Callers :
    callers[c].pc = "closeWait" /\ callers'[c].pc # "closeWait" =>
      \A w \in 1..started : ~Running(w) /\ workers[w].dones = 1

\* C20: in every state the WaitGroup counter equals the number of workers
\* started and not yet finished and is never negative; hence the wait inside
\* Close returns only when every worker ever started, superseded ones
\* included, has finished.
WaitGroupTracksWorkers == []WgCountsRunning /\ [][WaitReturnsAfterAll]_vars

\* Close has returned after two workers were started: the superseded one was
\* never cancelled and ran out its budget, the current one was cancelled.
WaitGroupTracksWitness ==
  /\ ret.op = "Close"
  /\ ret.target = 2
  /\ started = 2
  /\ wg = 0
  /\ workers[1].pc = "done"
  /\ ~workers[1].cancelled
  /\ workers[1].iterations = WorkerBudget
  /\ workers[2].pc = "done"
  /\ workers[2].cancelled

====
